---- MODULE Spec2Model ----
(***************************************************************************)
(* Model of telegram-bot-ngrok (main.go): the process controller           *)
(* (launchNgrok / shutdownNgrok, the global cmd handle and lock, the       *)
(* asynchronous kill goroutines) and the conversation router               *)
(* (processUpdate / processCallbackQuery).                                 *)
(*                                                                         *)
(* Strings are sequences of atoms: "/shutdown now" is <<"/shutdown"," ",   *)
(* "now">>, so that prefix tests, splitting and emptiness are computed.    *)
(***************************************************************************)
EXTENDS Integers, Sequences, FiniteSets, TLC

\* ------------------------------------------------------------------ bounds
\* inbound events delivered in one run
MaxEvents == 2
\* exec.Cmd objects created in one run (one per launchNgrok call)
MaxCmds == 2

\* the goroutines running the update callback concurrently
Handlers == {1, 2}
CmdIds == 1..MaxCmds

\* ------------------------------------------------------- program constants
commandStart == <<"/start">>
commandLaunchNgrok == <<"/launch">>
commandShutdownNgrok == <<"/shutdown">>
commandCancel == <<"/cancel">>

messageDefault == <<"Welcome!">>
messageUnknownCommand == <<"Unknown command.">>
messageNoTunnels == <<"No tunnels available.">>
messageNoConfiguredTunnels == <<"No tunnels configured.">>
messageWhatToLaunch == <<"Which tunnel do you want to launch?">>
messageCancel == <<"Cancel">>
messageCanceled == <<"Canceled.">>
messageLaunchFailed == <<"Launch failed.">>
messageShutdownSuccessfully == <<"Shutdown successfully.">>

\* fmt.Sprintf of a format with one %s: the literal text around the argument
Sprintf(before, arg, after) == before \o arg \o after

messageLaunchedSuccessfullyFormat(s) == Sprintf(<<"Launched successfully: ">>, s, <<>>)
messageShutdownSuccessfullyFormat(s) == Sprintf(<<"Shutdown successfully. (">>, s, <<")">>)
messageShutdownFailedFormat(s) == Sprintf(<<"Failed to shutdown: ">>, s, <<>>)

\* keyboards
allKeyboards == << <<commandLaunchNgrok, commandShutdownNgrok>> >>

\* a nil *string / nil *exec.Cmd
Nil == "nil"
NoCmd == 0

\* ------------------------------------------------------------ configuration
\* config.json as read by init(): the allow-list and the profile map
availableIds == <<"alice">>

\* a Go map[string]string as the set of its (key, value) entries
ProfileSets ==
    { {},
      { [label |-> <<"web">>, params |-> <<"http", " ", "8080">>],
        [label |-> <<"ssh">>, params |-> <<"tcp", " ", "22">>] },
      { [label |-> <<"/cancel", "led">>, params |-> <<"tcp", " ", "22">>] } }

\* the keys of a map, the test `_, exists := m[k]`, and the lookup m[k]
Keys(m) == { e.label : e \in m }
Exists(m, k) == k \in Keys(m)
Lookup(m, k) == (CHOOSE e \in m : e.label = k).params

\* -------------------------------------------------------------- pure helpers
\* strings.HasPrefix
HasPrefix(s, prefix) ==
    /\ Len(s) >= Len(prefix)
    /\ SubSeq(s, 1, Len(prefix)) = prefix

\* strings.Split(s, sep) for a one-atom separator: always at least one field
RECURSIVE Split(_, _)
Split(s, sep) ==
    IF \A i \in 1..Len(s) : s[i] # sep
    THEN <<s>>
    ELSE LET i == CHOOSE k \in 1..Len(s) :
                     s[k] = sep /\ \A j \in 1..(k - 1) : s[j] # sep
         IN  <<SubSeq(s, 1, i - 1)>> \o Split(SubSeq(s, i + 1, Len(s)), sep)

\* isAvailableId: linear search of the allow-list
isAvailableId(id) == \E i \in 1..Len(availableIds) : availableIds[i] = id

\* launchNgrok lines 195-201: the endpoint report built from the tunnel list
\* (the atom "> " stands for the bullet the format string starts with)
RECURSIVE FormatTunnels(_)
FormatTunnels(tunnels) ==
    IF tunnels = <<>>
    THEN <<>>
    ELSE <<"> ", Head(tunnels).Name, "\n    ", Head(tunnels).PublicUrl, "\n">>
             \o FormatTunnels(Tail(tunnels))

\* a variant of StatusReport without the fallback for an empty report
StatusReportNoFallback(tunnels) == FormatTunnels(tunnels)

StatusReport(tunnels) ==
    LET status == FormatTunnels(tunnels)
    IN  IF Len(status) <= 0 THEN messageNoTunnels ELSE status

\* what tunnelsStatus() can return: an error, or the parsed tunnel list
Tunnel1 == [Name |-> "web", PublicUrl |-> "https://abc.ngrok.io"]
Tunnel2 == [Name |-> "ssh", PublicUrl |-> "tcp://0.tcp.ngrok.io:1"]
StatusResults ==
    { [err |-> <<"connection refused">>, tunnels |-> <<>>] }
    \cup { [err |-> <<>>, tunnels |-> t] : t \in { <<>>, <<Tunnel1, Tunnel2>> } }

\* ------------------------------------------------------------------- events
\* a sender's username; Nil is an update whose sender has none
Users == {"alice", "mallory", Nil}
MsgTexts ==
    { <<"/start">>, <<"/launch">>, <<"/shutdown">>, <<"/shutdown", " now">>,
      <<"hello">>, <<>> }
Tokens == { <<"/cancel">>, <<"/cancel", "led">>, <<"web">>, <<"ssh">> }

NoEvent == [kind |-> "none", user |-> Nil, text |-> <<>>]

\* the updates delivered: every text from the allowed sender, a command from
\* a sender who is not allowed and one from a sender without username, every
\* token from the allowed sender and a profile button from one who is not
Events ==
    { [kind |-> "message", user |-> "alice", text |-> t] : t \in MsgTexts }
    \cup { [kind |-> "message", user |-> "mallory", text |-> <<"/shutdown">>],
           [kind |-> "message", user |-> Nil, text |-> <<"/launch">>] }
    \cup { [kind |-> "callback", user |-> "alice", text |-> t] : t \in Tokens }
    \cup { [kind |-> "callback", user |-> "mallory", text |-> <<"web">>] }

\* -------------------------------------------------------------------- state
VARIABLES
    tunnelParams,   \* the profile map, read once by init()
    lock,           \* sync.Mutex: 0 when free, else the handler holding it
    cmd,            \* the global *exec.Cmd: NoCmd (nil) or a Cmd id
    proc,           \* per Cmd: "none" (not created), "unstarted" (Process nil),
                    \*   "forked" (child created inside Start, Process still nil),
                    \*   "running", "exited" (exited on its own, not reaped),
                    \*   "killed" (exited by SIGKILL, not reaped), "reaped"
    waits,          \* per Cmd: how many calls of cmd.Wait() on it have returned
    nCmds,          \* Cmd objects created so far
    kills,          \* kill goroutines started and not yet ended: who started it,
                    \*   the handle held then (target), the handle it has read
    crashed,        \* the host process died of a panic
    pc,             \* per handler: its position
    ev,             \* per handler: the update it is processing
    message,        \* per handler: the local variable message
    success,        \* per handler: launchSuccessful / the success result
    result,         \* per handler: the handler's return value
    options,        \* per handler: the reply_markup of the outgoing message
    out,            \* per handler: transport calls made for the current update
    op,             \* per handler: what its lifecycle operation met and did so far
                    \*   (idle/old: the handle when it took the lock)
    nEvents,        \* updates delivered so far
    arrived         \* per handler: the position of its update, in arrival order,
                    \*   among the updates still being handled (0: none)

vars == <<tunnelParams, lock, cmd, proc, waits, nCmds, kills, crashed,
          pc, ev, message, success, result, options, out, op, nEvents, arrived>>

ctlVars == <<lock, cmd, proc, waits, nCmds, kills, crashed>>

NoOp == [kind |-> "none", idle |-> FALSE, old |-> NoCmd, new |-> NoCmd, kill |-> FALSE,
         waited |-> FALSE, waitErr |-> FALSE, spawn |-> "none", status |-> "none",
         tunnels |-> <<>>, params |-> <<>>]

Exited(c) == proc[c] \in {"exited", "killed"}
Started(c) == proc[c] \in {"running", "exited", "killed", "reaped"}

Init ==
    /\ tunnelParams \in ProfileSets
    /\ lock = 0
    /\ cmd = NoCmd
    /\ proc = [c \in CmdIds |-> "none"]
    /\ waits = [c \in CmdIds |-> 0]
    /\ nCmds = 0
    /\ kills = {}
    /\ crashed = FALSE
    /\ pc = [h \in Handlers |-> "idle"]
    /\ ev = [h \in Handlers |-> NoEvent]
    /\ message = [h \in Handlers |-> <<>>]
    /\ success = [h \in Handlers |-> FALSE]
    /\ result = [h \in Handlers |-> FALSE]
    /\ options = [h \in Handlers |-> Nil]
    /\ out = [h \in Handlers |-> <<>>]
    /\ op = [h \in Handlers |-> NoOp]
    /\ nEvents = 0
    /\ arrived = [h \in Handlers |-> 0]

\* ------------------------------------------------------- process controller
\* the handler's frame: what a controller step leaves alone
RouterUnchanged == UNCHANGED <<tunnelParams, ev, result, options, out, nEvents, arrived>>

\* a Lock that never blocks
LockNeverBlocks == TRUE

\* sync.Mutex.Lock: blocks while another handler holds the lock
LockFree == lock = 0

\* a Wait that returns without waiting for the exit
WaitReturnsAtOnce(c) == TRUE

\* exec.Cmd.Wait on Cmd c returns only once the process is no longer running;
\* with Process nil ("exec: not started") or after an earlier Wait it returns
\* an error at once
WaitCanReturn(c) == proc[c] # "running"

\* the errors Wait can return (TRUE: an error, FALSE: nil): nil only for a
\* process that exited on its own, whose exit status is then zero
WaitErrs(c) == IF proc[c] = "exited" THEN BOOLEAN ELSE {TRUE}

\* a Wait that returns without reaping the exited process
ProcNotReaped(c) == proc

\* the process table after Wait returned on Cmd c: an exited process is reaped
ProcAfterWait(c) == IF Exited(c) THEN [proc EXCEPT ![c] = "reaped"] ELSE proc
\* every cmd.Wait() that returns on Cmd c is counted, whatever it found
WaitsAfterWait(c) == [waits EXCEPT ![c] = @ + 1]

\* launchNgrok line 172
L_Lock(h) ==
    /\ pc[h] = "l_lock"
    /\ ~crashed
    /\ LockFree
    /\ lock' = h
    /\ pc' = [pc EXCEPT ![h] = "l_check"]
    /\ op' = [op EXCEPT ![h].idle = (cmd = NoCmd), ![h].old = cmd]
    /\ UNCHANGED <<cmd, proc, waits, nCmds, kills, crashed, message, success>>
    /\ RouterUnchanged

\* a Launch that replaces the handle without terminating the old process
L_CheckNoTeardown(h) ==
    /\ pc[h] = "l_check"
    /\ ~crashed
    /\ pc' = [pc EXCEPT ![h] = "l_new"]
    /\ UNCHANGED <<lock, cmd, proc, waits, nCmds, kills, crashed, message, success, op>>
    /\ RouterUnchanged

\* launchNgrok lines 175-182: a handle is held, so start the kill goroutine
L_Check(h) ==
    /\ pc[h] = "l_check"
    /\ ~crashed
    /\ IF cmd # NoCmd
       THEN /\ kills' = kills \cup {[by |-> h, target |-> cmd, read |-> NoCmd]}
            /\ op' = [op EXCEPT ![h].kill = TRUE]
            /\ pc' = [pc EXCEPT ![h] = "l_wait"]
       ELSE /\ UNCHANGED <<kills, op>>
            /\ pc' = [pc EXCEPT ![h] = "l_new"]
    /\ UNCHANGED <<lock, cmd, proc, waits, nCmds, crashed, message, success>>
    /\ RouterUnchanged

\* launchNgrok line 183: cmd.Wait(), its error ignored
L_Wait(h) ==
    /\ pc[h] = "l_wait"
    /\ ~crashed
    /\ cmd # NoCmd
    /\ WaitCanReturn(cmd)
    /\ proc' = ProcAfterWait(cmd)
    /\ waits' = WaitsAfterWait(cmd)
    /\ op' = [op EXCEPT ![h].waited = TRUE]
    /\ pc' = [pc EXCEPT ![h] = "l_new"]
    /\ UNCHANGED <<lock, cmd, nCmds, kills, crashed, message, success>>
    /\ RouterUnchanged

\* launchNgrok line 185: cmd = exec.Command(...), a Cmd whose Process is nil
L_New(h) ==
    /\ pc[h] = "l_new"
    /\ ~crashed
    /\ nCmds < MaxCmds
    /\ nCmds' = nCmds + 1
    /\ cmd' = nCmds + 1
    /\ proc' = [proc EXCEPT ![nCmds + 1] = "unstarted"]
    /\ op' = [op EXCEPT ![h].new = nCmds + 1]
    /\ pc' = [pc EXCEPT ![h] = "l_start"]
    /\ UNCHANGED <<lock, waits, kills, crashed, message, success>>
    /\ RouterUnchanged

\* launchNgrok lines 191, 206-208: inside cmd.Start() the child is created
\* while cmd.Process is still nil, or Start fails and the function returns
\* the launch failure
L_Start(h) ==
    /\ pc[h] = "l_start"
    /\ ~crashed
    /\ cmd # NoCmd
    /\ \/ /\ proc' = [proc EXCEPT ![cmd] = "forked"]
          /\ pc' = [pc EXCEPT ![h] = "l_started"]
          /\ UNCHANGED <<message, success, op>>
       \/ /\ message' = [message EXCEPT
                 ![h] = Sprintf(<<"Failed to launch: ">>, <<"exec error">>, <<>>)]
          /\ success' = [success EXCEPT ![h] = FALSE]
          /\ op' = [op EXCEPT ![h].spawn = "fail"]
          /\ pc' = [pc EXCEPT ![h] = "l_unlock"]
          /\ UNCHANGED proc
    /\ UNCHANGED <<lock, cmd, waits, nCmds, kills, crashed>>
    /\ RouterUnchanged

\* launchNgrok line 191: cmd.Start() assigns cmd.Process and returns nil
L_Started(h) ==
    /\ pc[h] = "l_started"
    /\ ~crashed
    /\ cmd # NoCmd
    /\ proc' = [proc EXCEPT ![cmd] = IF @ = "forked" THEN "running" ELSE @]
    /\ op' = [op EXCEPT ![h].spawn = "ok"]
    /\ pc' = [pc EXCEPT ![h] = "l_sleep"]
    /\ UNCHANGED <<lock, cmd, waits, nCmds, kills, crashed, message, success>>
    /\ RouterUnchanged

\* launchNgrok line 192: the settle delay, inside the critical section
L_Sleep(h) ==
    /\ pc[h] = "l_sleep"
    /\ ~crashed
    /\ pc' = [pc EXCEPT ![h] = "l_status"]
    /\ UNCHANGED <<lock, cmd, proc, waits, nCmds, kills, crashed, message, success, op>>
    /\ RouterUnchanged

\* a Launch that treats an empty tunnel list as a failure
LaunchResultEmptyFails(r) ==
    IF r.err = <<>> /\ r.tunnels # <<>>
    THEN [message |-> StatusReport(r.tunnels), success |-> TRUE]
    ELSE [message |-> Sprintf(<<"Failed to get tunnels status: ">>, r.err, <<>>),
          success |-> FALSE]

\* launchNgrok lines 194-205: the result of the one status query
LaunchResult(r) ==
    IF r.err = <<>>
    THEN [message |-> StatusReport(r.tunnels), success |-> TRUE]
    ELSE [message |-> Sprintf(<<"Failed to get tunnels status: ">>, r.err, <<>>),
          success |-> FALSE]

\* launchNgrok lines 194-205
L_Status(h) ==
    /\ pc[h] = "l_status"
    /\ ~crashed
    /\ \E r \in StatusResults :
          /\ message' = [message EXCEPT ![h] = LaunchResult(r).message]
          /\ success' = [success EXCEPT ![h] = LaunchResult(r).success]
          /\ op' = [op EXCEPT ![h].status = IF r.err = <<>> THEN "ok" ELSE "fail",
                              ![h].tunnels = r.tunnels]
    /\ pc' = [pc EXCEPT ![h] = "l_unlock"]
    /\ UNCHANGED <<lock, cmd, proc, waits, nCmds, kills, crashed>>
    /\ RouterUnchanged

\* launchNgrok line 173: the deferred lock.Unlock() on return
L_Unlock(h) ==
    /\ pc[h] = "l_unlock"
    /\ ~crashed
    /\ lock' = 0
    /\ pc' = [pc EXCEPT ![h] = "cb_answer"]
    /\ UNCHANGED <<cmd, proc, waits, nCmds, kills, crashed, message, success, op>>
    /\ RouterUnchanged

\* shutdownNgrok line 213
S_Lock(h) ==
    /\ pc[h] = "s_lock"
    /\ ~crashed
    /\ LockFree
    /\ lock' = h
    /\ pc' = [pc EXCEPT ![h] = "s_check"]
    /\ op' = [op EXCEPT ![h].idle = (cmd = NoCmd), ![h].old = cmd]
    /\ UNCHANGED <<cmd, proc, waits, nCmds, kills, crashed, message, success>>
    /\ RouterUnchanged

\* a Shutdown that skips the nil check
NeverNothingToShutdown == FALSE

\* shutdownNgrok line 216: is there nothing to shut down?
NothingToShutdown == cmd = NoCmd

\* shutdownNgrok lines 216-226: no handle -> the failure result; else start
\* the kill goroutine
S_Check(h) ==
    /\ pc[h] = "s_check"
    /\ ~crashed
    /\ IF NothingToShutdown
       THEN /\ message' = [message EXCEPT
                   ![h] = messageShutdownFailedFormat(<<"no running process">>)]
            /\ success' = [success EXCEPT ![h] = FALSE]
            /\ pc' = [pc EXCEPT ![h] = "s_unlock"]
            /\ UNCHANGED <<kills, op>>
       ELSE /\ kills' = kills \cup {[by |-> h, target |-> cmd, read |-> NoCmd]}
            /\ op' = [op EXCEPT ![h].kill = TRUE]
            /\ pc' = [pc EXCEPT ![h] = "s_wait"]
            /\ UNCHANGED <<message, success>>
    /\ UNCHANGED <<lock, cmd, proc, waits, nCmds, crashed>>
    /\ RouterUnchanged

\* shutdownNgrok lines 229-233: the message chosen from Wait's error
ShutdownMessage(waitErr) ==
    IF ~waitErr
    THEN messageShutdownSuccessfully
    ELSE messageShutdownSuccessfullyFormat(<<"wait error">>)

\* shutdownNgrok lines 228-233: cmd.Wait() and the message
S_Wait(h) ==
    /\ pc[h] = "s_wait"
    /\ ~crashed
    /\ cmd # NoCmd
    /\ WaitCanReturn(cmd)
    /\ proc' = ProcAfterWait(cmd)
    /\ waits' = WaitsAfterWait(cmd)
    /\ \E err \in WaitErrs(cmd) :
          /\ message' = [message EXCEPT ![h] = ShutdownMessage(err)]
          /\ op' = [op EXCEPT ![h].waited = TRUE, ![h].waitErr = err]
    /\ pc' = [pc EXCEPT ![h] = "s_clear"]
    /\ UNCHANGED <<lock, cmd, nCmds, kills, crashed, success>>
    /\ RouterUnchanged

\* a Shutdown that escalates a non-clean exit to a failure
S_ClearEscalates(h) ==
    /\ pc[h] = "s_clear"
    /\ ~crashed
    /\ cmd' = NoCmd
    /\ success' = [success EXCEPT ![h] = ~op[h].waitErr]
    /\ pc' = [pc EXCEPT ![h] = "s_unlock"]
    /\ UNCHANGED <<lock, proc, waits, nCmds, kills, crashed, message, op>>
    /\ RouterUnchanged

\* shutdownNgrok lines 234-236: cmd = nil; return msg, true
S_Clear(h) ==
    /\ pc[h] = "s_clear"
    /\ ~crashed
    /\ cmd' = NoCmd
    /\ success' = [success EXCEPT ![h] = TRUE]
    /\ pc' = [pc EXCEPT ![h] = "s_unlock"]
    /\ UNCHANGED <<lock, proc, waits, nCmds, kills, crashed, message, op>>
    /\ RouterUnchanged

\* shutdownNgrok line 214: the deferred lock.Unlock() on return
S_Unlock(h) ==
    /\ pc[h] = "s_unlock"
    /\ ~crashed
    /\ lock' = 0
    /\ pc' = [pc EXCEPT ![h] = "pu_send"]
    /\ UNCHANGED <<cmd, proc, waits, nCmds, kills, crashed, message, success, op>>
    /\ RouterUnchanged

\* lines 180-182 and 224-226: the goroutine body cmd.Process.Kill() runs
\* without the lock, in steps other code can come between. First it reads the
\* global cmd as it is then: a nil cmd is a nil dereference (the host panics)
KillRead(g) ==
    /\ g \in kills
    /\ g.read = NoCmd
    /\ ~crashed
    /\ IF cmd = NoCmd
       THEN /\ crashed' = TRUE
            /\ kills' = kills \ {g}
       ELSE /\ kills' = (kills \ {g}) \cup {[g EXCEPT !.read = cmd]}
            /\ UNCHANGED crashed
    /\ UNCHANGED <<lock, cmd, proc, waits, nCmds, message, success, op, pc>>
    /\ RouterUnchanged

\* then it reads Process of the handle it has read and calls Kill: a nil
\* Process is a nil dereference (the host panics); a live process is killed;
\* a process that already exited is left as it is (Kill returns an error)
KillRun(g) ==
    /\ g \in kills
    /\ g.read # NoCmd
    /\ ~crashed
    /\ kills' = kills \ {g}
    /\ IF proc[g.read] \in {"unstarted", "forked"}
       THEN /\ crashed' = TRUE
            /\ UNCHANGED proc
       ELSE /\ proc' = IF proc[g.read] = "running"
                       THEN [proc EXCEPT ![g.read] = "killed"]
                       ELSE proc
            /\ UNCHANGED crashed
    /\ UNCHANGED <<lock, cmd, waits, nCmds, message, success, op, pc>>
    /\ RouterUnchanged

\* the agent process ends on its own (bad arguments, lost session, ...); an
\* exit before cmd.Process is assigned shows to the program as one right after
ProcExit(c) ==
    /\ proc[c] = "running"
    /\ proc' = [proc EXCEPT ![c] = "exited"]
    /\ UNCHANGED <<lock, cmd, waits, nCmds, kills, crashed, message, success, op, pc>>
    /\ RouterUnchanged

\* --------------------------------------------------------------- the router
CtlUnchanged == UNCHANGED <<lock, cmd, proc, waits, nCmds, kills, crashed>>

Call(name, text, markup) == [call |-> name, text |-> text, markup |-> markup]

\* len(tunnelParams)
NumProfiles == Cardinality(tunnelParams)

\* the orders in which `for k := range tunnelParams` can visit the labels
LabelOrders ==
    { f \in [1..NumProfiles -> Keys(tunnelParams)] :
          \A i, j \in 1..NumProfiles : i # j => f[i] # f[j] }

\* a variant of InlineKeyboard without the cancel row
InlineKeyboardNoCancel(order) ==
    [kind |-> "inline",
     rows |-> [i \in 1..NumProfiles |-> [Text |-> order[i], CallbackData |-> order[i]]]]

\* processUpdate lines 285-308: one button row per label, then the cancel row
InlineKeyboard(order) ==
    [kind |-> "inline",
     rows |-> [i \in 1..NumProfiles |-> [Text |-> order[i], CallbackData |-> order[i]]]
                  \o <<[Text |-> messageCancel, CallbackData |-> commandCancel]>>]

\* processUpdate lines 267-272: the default options
ReplyKeyboard == [kind |-> "reply", rows |-> allKeyboards]

\* would processCallbackQuery call launchNgrok for this update? (an update
\* that would is delivered only while fewer than MaxCmds launches are due)
WouldLaunch(e) ==
    /\ e.kind = "callback"
    /\ ~HasPrefix(e.text, commandCancel)
    /\ Exists(tunnelParams, e.text)

PendingLaunches ==
    Cardinality({h \in Handlers :
        /\ WouldLaunch(ev[h])
        /\ pc[h] \in {"cb_begin", "l_lock", "l_check", "l_wait", "l_new"}})

\* main lines 417-427: the update callback runs processUpdate for a message
\* and processCallbackQuery for a callback query; the handlers are
\* interchangeable, so an update goes to the first idle one
Receive(h) ==
    /\ pc[h] = "idle"
    /\ \A g \in Handlers : g < h => pc[g] # "idle"
    /\ ~crashed
    /\ nEvents < MaxEvents
    /\ \E e \in Events :
          /\ WouldLaunch(e) => nCmds + PendingLaunches < MaxCmds
          /\ ev' = [ev EXCEPT ![h] = e]
          /\ pc' = [pc EXCEPT ![h] = IF e.kind = "message" THEN "pu_begin" ELSE "cb_begin"]
    /\ nEvents' = nEvents + 1
    /\ arrived' = [arrived EXCEPT ![h] = 1 + Cardinality({g \in Handlers : arrived[g] > 0})]
    /\ UNCHANGED <<tunnelParams, message, success, result, options, out, op>>
    /\ CtlUnchanged

\* processUpdate lines 244-253: is the sender allowed?
Authorized(e) == e.user # Nil /\ isAvailableId(e.user)

\* processUpdate line 275, processCallbackQuery line 345
TypingCall == Call("SendChatAction", <<>>, Nil)

\* processUpdate lines 317-322: the reply to unrecognized text
UnknownReply(txt) ==
    IF Len(txt) > 0
    THEN txt \o <<": ">> \o messageUnknownCommand
    ELSE messageUnknownCommand

\* processUpdate lines 242-323: the sender check, the typing action and the
\* command switch, up to the call of shutdownNgrok or the reply to send
PU_Begin(h) ==
    LET txt == ev[h].text IN
    /\ pc[h] = "pu_begin"
    /\ ~crashed
    /\ \/ /\ ~Authorized(ev[h])
          /\ pc' = [pc EXCEPT ![h] = "done"]
          /\ UNCHANGED <<message, options, out, op>>
       \/ /\ Authorized(ev[h])
          /\ out' = [out EXCEPT ![h] = Append(@, TypingCall)]
          /\ \/ /\ HasPrefix(txt, commandStart)
                /\ message' = [message EXCEPT ![h] = messageDefault]
                /\ options' = [options EXCEPT ![h] = ReplyKeyboard]
                /\ pc' = [pc EXCEPT ![h] = "pu_send"]
                /\ UNCHANGED op
             \/ /\ ~HasPrefix(txt, commandStart)
                /\ HasPrefix(txt, commandLaunchNgrok)
                /\ NumProfiles > 0
                /\ \E order \in LabelOrders :
                      options' = [options EXCEPT ![h] = InlineKeyboard(order)]
                /\ message' = [message EXCEPT ![h] = messageWhatToLaunch]
                /\ pc' = [pc EXCEPT ![h] = "pu_send"]
                /\ UNCHANGED op
             \/ /\ ~HasPrefix(txt, commandStart)
                /\ HasPrefix(txt, commandLaunchNgrok)
                /\ ~(NumProfiles > 0)
                /\ message' = [message EXCEPT ![h] = messageNoConfiguredTunnels]
                /\ options' = [options EXCEPT ![h] = ReplyKeyboard]
                /\ pc' = [pc EXCEPT ![h] = "pu_send"]
                /\ UNCHANGED op
             \/ /\ ~HasPrefix(txt, commandStart)
                /\ ~HasPrefix(txt, commandLaunchNgrok)
                /\ HasPrefix(txt, commandShutdownNgrok)
                /\ op' = [op EXCEPT ![h] = [NoOp EXCEPT !.kind = "shutdown"]]
                /\ options' = [options EXCEPT ![h] = ReplyKeyboard]
                /\ pc' = [pc EXCEPT ![h] = "s_lock"]
                /\ UNCHANGED message
             \/ /\ ~HasPrefix(txt, commandStart)
                /\ ~HasPrefix(txt, commandLaunchNgrok)
                /\ ~HasPrefix(txt, commandShutdownNgrok)
                /\ message' = [message EXCEPT ![h] = UnknownReply(txt)]
                /\ options' = [options EXCEPT ![h] = ReplyKeyboard]
                /\ pc' = [pc EXCEPT ![h] = "pu_send"]
                /\ UNCHANGED op
    /\ UNCHANGED <<tunnelParams, ev, success, result, nEvents, arrived>>
    /\ CtlUnchanged

\* a variant of PU_Send that sends the message again when the call failed
PU_SendRetries(h) ==
    LET send == Call("SendMessage", message[h], options[h]) IN
    /\ pc[h] = "pu_send"
    /\ ~crashed
    /\ \/ /\ out' = [out EXCEPT ![h] = Append(@, send)]
          /\ result' = [result EXCEPT ![h] = TRUE]
       \/ /\ out' = [out EXCEPT ![h] = Append(Append(@, send), send)]
          /\ \E ok \in BOOLEAN : result' = [result EXCEPT ![h] = ok]
    /\ pc' = [pc EXCEPT ![h] = "done"]
    /\ UNCHANGED <<tunnelParams, ev, message, success, options, op, nEvents, arrived>>
    /\ CtlUnchanged

\* a variant of PU_Send that replaces a failure report by the greeting
PU_SendGreetsOnFailure(h) ==
    LET text == IF op[h].kind = "shutdown" /\ ~success[h] THEN messageDefault ELSE message[h]
    IN
    /\ pc[h] = "pu_send"
    /\ ~crashed
    /\ out' = [out EXCEPT ![h] = Append(@, Call("SendMessage", text, options[h]))]
    /\ \E ok \in BOOLEAN : result' = [result EXCEPT ![h] = ok]
    /\ pc' = [pc EXCEPT ![h] = "done"]
    /\ UNCHANGED <<tunnelParams, ev, message, success, options, op, nEvents, arrived>>
    /\ CtlUnchanged

\* processUpdate lines 326-332
PU_Send(h) ==
    /\ pc[h] = "pu_send"
    /\ ~crashed
    /\ out' = [out EXCEPT ![h] = Append(@, Call("SendMessage", message[h], options[h]))]
    /\ \E ok \in BOOLEAN : result' = [result EXCEPT ![h] = ok]
    /\ pc' = [pc EXCEPT ![h] = "done"]
    /\ UNCHANGED <<tunnelParams, ev, message, success, options, op, nEvents, arrived>>
    /\ CtlUnchanged

\* processCallbackQuery lines 337-365: no check of the sender; the typing
\* action; then cancel, a profile label (launchNgrok is called) or a drop
CB_Begin(h) ==
    LET txt == ev[h].text IN
    /\ pc[h] = "cb_begin"
    /\ ~crashed
    /\ out' = [out EXCEPT ![h] = Append(@, TypingCall)]
    /\ \/ /\ HasPrefix(txt, commandCancel)
          /\ message' = [message EXCEPT ![h] = <<>>]
          /\ pc' = [pc EXCEPT ![h] = "cb_answer"]
          /\ UNCHANGED op
       \/ /\ ~HasPrefix(txt, commandCancel)
          /\ Exists(tunnelParams, txt)
          /\ Len(Split(Lookup(tunnelParams, txt), " ")) > 0
          /\ op' = [op EXCEPT ![h] = [NoOp EXCEPT !.kind = "launch",
                        !.params = Split(Lookup(tunnelParams, txt), " ")]]
          /\ pc' = [pc EXCEPT ![h] = "l_lock"]
          /\ UNCHANGED message
       \/ /\ ~HasPrefix(txt, commandCancel)
          /\ ~(Exists(tunnelParams, txt)
                  /\ Len(Split(Lookup(tunnelParams, txt), " ")) > 0)
          /\ pc' = [pc EXCEPT ![h] = "done"]
          /\ UNCHANGED <<message, op>>
    /\ UNCHANGED <<tunnelParams, ev, success, result, options, nEvents, arrived>>
    /\ CtlUnchanged

\* a variant of AnswerText that announces a success whatever Launch returned
AnswerTextAlwaysLaunched(msg, launchSuccessful, txt) ==
    IF Len(msg) > 0
    THEN [has |-> TRUE, text |-> messageLaunchedSuccessfullyFormat(txt)]
    ELSE [has |-> FALSE, text |-> <<>>]

\* processCallbackQuery lines 368-375: the toast of the callback answer
AnswerText(msg, launchSuccessful, txt) ==
    IF Len(msg) > 0
    THEN IF launchSuccessful
         THEN [has |-> TRUE, text |-> messageLaunchedSuccessfullyFormat(txt)]
         ELSE [has |-> TRUE, text |-> messageLaunchFailed]
    ELSE [has |-> FALSE, text |-> <<>>]

\* a variant of EditText that keeps the empty message of the cancel path
EditTextKeepsMessage(msg) == msg

\* processCallbackQuery lines 383-385
EditText(msg) == IF Len(msg) <= 0 THEN messageCanceled ELSE msg

\* processCallbackQuery lines 367-376, 391-393: answer the callback query;
\* the call returns Ok (the edit is still to come) or fails (logged, return)
CB_Answer(h) ==
    LET toast == AnswerText(message[h], success[h], ev[h].text)
        answer == Call("AnswerCallbackQuery", toast.text, toast.has)
    IN
    /\ pc[h] = "cb_answer"
    /\ ~crashed
    /\ out' = [out EXCEPT ![h] = Append(@, answer)]
    /\ \/ pc' = [pc EXCEPT ![h] = "done"]
       \/ pc' = [pc EXCEPT ![h] = "cb_edit"]
    /\ result' = [result EXCEPT ![h] = FALSE]
    /\ UNCHANGED <<tunnelParams, ev, message, success, options, op, nEvents, arrived>>
    /\ CtlUnchanged

\* processCallbackQuery lines 377-390: after an accepted answer, edit the
\* message text; the handler's result is whether the edit was accepted
CB_Edit(h) ==
    LET edit == Call("EditMessageText", EditText(message[h]), Nil) IN
    /\ pc[h] = "cb_edit"
    /\ ~crashed
    /\ message' = [message EXCEPT ![h] = EditText(message[h])]
    /\ out' = [out EXCEPT ![h] = Append(@, edit)]
    /\ \E ok \in BOOLEAN : result' = [result EXCEPT ![h] = ok]
    /\ pc' = [pc EXCEPT ![h] = "done"]
    /\ UNCHANGED <<tunnelParams, ev, success, options, op, nEvents, arrived>>
    /\ CtlUnchanged

\* the callback returns; the handler goroutine ends and its locals are gone
Return(h) ==
    /\ pc[h] = "done"
    /\ ~crashed
    /\ pc' = [pc EXCEPT ![h] = "idle"]
    /\ ev' = [ev EXCEPT ![h] = NoEvent]
    /\ message' = [message EXCEPT ![h] = <<>>]
    /\ success' = [success EXCEPT ![h] = FALSE]
    /\ result' = [result EXCEPT ![h] = FALSE]
    /\ options' = [options EXCEPT ![h] = Nil]
    /\ out' = [out EXCEPT ![h] = <<>>]
    /\ op' = [op EXCEPT ![h] = NoOp]
    /\ arrived' = [g \in Handlers |->
                      IF g = h THEN 0
                      ELSE IF arrived[g] > arrived[h] THEN arrived[g] - 1 ELSE arrived[g]]
    /\ UNCHANGED <<tunnelParams, nEvents>>
    /\ CtlUnchanged

\* ------------------------------------------------------------ specification
\* a handler whose last call has returned has only `return` left (main.go 332,
\* 395, 426): local statements, no call, no lock. The return is taken before
\* any other step; the interleavings this leaves out differ from the ones kept
\* only in where this local step falls.
Returning == \E h \in Handlers : pc[h] = "done"

\* the steps of one callback between its start and its return
CallbackStep(h) ==
    \/ PU_Begin(h) \/ PU_Send(h)
    \/ CB_Begin(h) \/ CB_Answer(h) \/ CB_Edit(h)
    \/ L_Lock(h) \/ L_Check(h) \/ L_Wait(h) \/ L_New(h) \/ L_Start(h) \/ L_Started(h)
    \/ L_Sleep(h) \/ L_Status(h) \/ L_Unlock(h)
    \/ S_Lock(h) \/ S_Check(h) \/ S_Wait(h) \/ S_Clear(h) \/ S_Unlock(h)

HandlerStep(h) ==
    \/ Return(h)
    \/ ~Returning /\ Receive(h)
    \/ ~Returning /\ CallbackStep(h)

\* every step of the program itself (no new update, no spontaneous exit)
ProgramStep(h) ==
    \/ Return(h)
    \/ ~Returning /\ CallbackStep(h)

Next ==
    \/ \E h \in Handlers : HandlerStep(h)
    \/ ~Returning /\ \E g \in kills : KillRead(g)
    \/ ~Returning /\ \E g \in kills : KillRun(g)
    \/ ~Returning /\ \E c \in CmdIds : ProcExit(c)

Spec == Init /\ [][Next]_vars

\* the Go scheduler runs every runnable goroutine; updates and spontaneous
\* exits of the agent are the environment's and need not happen
FairSpec ==
    /\ Spec
    /\ \A h \in Handlers : WF_vars(ProgramStep(h))
    /\ WF_vars(\E g \in kills : KillRead(g))
    /\ WF_vars(\E g \in kills : KillRun(g))

\* ------------------------------------------------------------------ properties
InLaunchCS(h) ==
    pc[h] \in {"l_check", "l_wait", "l_new", "l_start", "l_started", "l_sleep", "l_status",
             "l_unlock"}
InShutdownCS(h) == pc[h] \in {"s_check", "s_wait", "s_clear", "s_unlock"}
InCS(h) == InLaunchCS(h) \/ InShutdownCS(h)

Live == { c \in CmdIds : proc[c] \in {"forked", "running"} }

Contains(msg, atom) == \E i \in 1..Len(msg) : msg[i] = atom

\* C1: at every instant at most one agent process has been spawned and has
\* not yet exited, also in the middle of a Launch that replaces an instance.
C1_AtMostOneLiveProcess == Cardinality(Live) <= 1

\* a Launch that found a handle has terminated it and spawned its successor
C1_Witness ==
    \E h \in Handlers :
        /\ pc[h] = "l_sleep"
        /\ op[h].old # NoCmd
        /\ Started(op[h].old)
        /\ proc[op[h].new] = "running"

\* C2, its first part as stated: every spawned process is eventually waited
\* on (reaped).
C2_EverySpawnedEventuallyReaped ==
    \A c \in CmdIds : (proc[c] = "running") ~> (proc[c] = "reaped")

\* what holds of the waits: no handle is waited on twice; a handle is never
\* replaced or cleared before its process has been waited on; an operation
\* that started a kill does not go past its Wait without the Wait having
\* returned.
C2_ReapedAtMostOnceAndNeverDropped ==
    /\ \A c \in CmdIds : waits[c] <= 1
    /\ \A c \in CmdIds : (Started(c) /\ c # cmd) => (proc[c] = "reaped" /\ waits[c] = 1)
    /\ \A h \in Handlers :
          (op[h].kill /\ pc[h] \notin {"l_wait", "s_wait"}) => op[h].waited

\* one process was reaped and dropped, its successor runs
C2_Witness ==
    \E c \in CmdIds :
        /\ waits[c] = 1
        /\ c # cmd
        /\ cmd # NoCmd
        /\ proc[cmd] = "running"

\* C3: when Launch replaces a running instance, the old process's exit has
\* been observed (its Wait returned) before the next process is spawned, and
\* the old handle is not dropped without having been waited on.
C3_ExitObservedBeforeSpawn ==
    [][ /\ \A c \in CmdIds :
              (cmd = c /\ cmd' # c /\ Started(c)) => (proc[c] = "reaped" /\ waits[c] = 1)
        /\ \A c \in CmdIds :
              (proc[c] = "unstarted" /\ proc'[c] = "forked")
                  => \A d \in CmdIds \ {c} : proc[d] \in {"none", "unstarted", "reaped"}
      ]_vars

\* a Launch over a running instance is about to spawn, the old one reaped
C3_Witness ==
    \E h \in Handlers :
        /\ pc[h] = "l_start"
        /\ op[h].old # NoCmd
        /\ proc[op[h].old] = "reaped"
        /\ op[h].waited

\* C4: no two Launch/Shutdown calls are inside their critical section at the
\* same time, and while a Launch is in its settle delay or status query no
\* other call changes the handle, starts a kill or waits on a process.
Goroutines(K) == { <<g.by, g.target>> : g \in K }

MutualExclusion ==
    /\ Cardinality({h \in Handlers : InCS(h)}) <= 1
    /\ \A h \in Handlers : InCS(h) => lock = h

C4_MutuallyExclusive ==
    /\ []MutualExclusion
    /\ [][ (\E h \in Handlers : pc[h] \in {"l_sleep", "l_status"})
              => /\ cmd' = cmd
                 /\ waits' = waits
                 /\ Goroutines(kills') \subseteq Goroutines(kills)
                 /\ \A g \in Handlers : pc[g] = "s_lock" => pc'[g] = "s_lock"
         ]_vars

\* a Shutdown is requested while a Launch is in its settle delay
C4_Witness ==
    \E h, g \in Handlers :
        /\ pc[h] = "l_sleep"
        /\ pc[g] = "s_lock"

\* C5 as stated: after a failed spawn Launch returns the launch failure and
\* the controller is Idle (no handle is held).
C5_SpawnFailureLeavesIdle ==
    \A h \in Handlers :
        (pc[h] = "l_unlock" /\ op[h].spawn = "fail")
            => /\ ~success[h]
               /\ HasPrefix(message[h], <<"Failed to launch: ">>)
               /\ cmd = NoCmd

\* C6: Shutdown while Idle returns the failure containing "no running
\* process", starts no kill, waits on nothing and leaves the controller Idle.
C6_ShutdownWhileIdle ==
    \A h \in Handlers :
        (op[h].kind = "shutdown" /\ op[h].idle /\ pc[h] \notin {"s_lock", "s_check"})
            => /\ pc[h] \in {"s_unlock", "pu_send", "done"}
               /\ Contains(message[h], "no running process")
               /\ ~success[h]
               /\ ~op[h].kill
               /\ ~op[h].waited
               /\ pc[h] = "s_unlock" => cmd = NoCmd

C6_Witness ==
    \E h \in Handlers :
        /\ op[h].kind = "shutdown"
        /\ op[h].idle
        /\ pc[h] = "s_unlock"

\* C7: Shutdown while Running starts the kill of the current process, waits
\* for its exit, clears the handle and returns success, whether Wait
\* reported a clean or a non-clean exit.
C7_ShutdownWhileRunning ==
    \A h \in Handlers :
        (op[h].kind = "shutdown" /\ pc[h] = "s_unlock" /\ ~op[h].idle
                /\ proc[op[h].old] # "unstarted")
            => /\ op[h].kill
               /\ op[h].waited
               /\ proc[op[h].old] = "reaped"
               /\ waits[op[h].old] = 1
               /\ cmd = NoCmd
               /\ success[h]
               /\ message[h] = IF op[h].waitErr
                               THEN <<"Shutdown successfully. (", "wait error", ")">>
                               ELSE <<"Shutdown successfully.">>

\* a Shutdown returns after Wait reported a non-clean exit
C7_Witness ==
    \E h \in Handlers :
        /\ op[h].kind = "shutdown"
        /\ pc[h] = "s_unlock"
        /\ ~op[h].idle
        /\ proc[op[h].old] = "reaped"
        /\ op[h].waitErr

\* C8: Launch while Idle, with the spawn and the status query succeeding,
\* leaves the controller Running and returns success with the endpoint
\* report; with zero tunnels the report is "No tunnels available.".
C8_LaunchWhileIdle ==
    \A h \in Handlers :
        (pc[h] = "l_unlock" /\ op[h].idle /\ op[h].spawn = "ok" /\ op[h].status = "ok")
            => /\ cmd = op[h].new
               /\ cmd # NoCmd
               /\ Started(cmd)
               /\ success[h]
               /\ op[h].tunnels = <<>> => message[h] = <<"No tunnels available.">>
               /\ op[h].tunnels # <<>> =>
                     /\ message[h] # <<"No tunnels available.">>
                     /\ \A i \in 1..Len(op[h].tunnels) :
                            /\ Contains(message[h], op[h].tunnels[i].Name)
                            /\ Contains(message[h], op[h].tunnels[i].PublicUrl)

\* a Launch from Idle returns after a status query that listed no tunnel
C8_Witness ==
    \E h \in Handlers :
        /\ pc[h] = "l_unlock"
        /\ op[h].idle
        /\ op[h].spawn = "ok"
        /\ op[h].status = "ok"
        /\ op[h].tunnels = <<>>

\* C9 as stated: when the spawn succeeds but the status query fails, Launch
\* returns a failure and the controller stays Running: the handle is kept
\* and the spawned process has been neither signalled nor waited on.
C9_StatusFailureKeepsProcess ==
    \A h \in Handlers :
        (pc[h] = "l_unlock" /\ op[h].spawn = "ok" /\ op[h].status = "fail")
            => /\ ~success[h]
               /\ HasPrefix(message[h], <<"Failed to get tunnels status: ">>)
               /\ cmd = op[h].new
               /\ cmd # NoCmd
               /\ proc[cmd] \notin {"killed", "reaped"}
               /\ waits[cmd] = 0

\* C10 as stated: an update whose sender is missing or not in the allow-list
\* causes no transport call and no Launch or Shutdown.
C10_UnauthorizedDropped ==
    \A h \in Handlers :
        (ev[h].kind # "none" /\ ~Authorized(ev[h]))
            => /\ out[h] = <<>>
               /\ op[h].kind = "none"

\* ---- the router's callbacks
IsCallback(h) == ev[h].kind = "callback"
Routed(h) == IsCallback(h) /\ pc[h] # "cb_begin"
Replies(h) ==
    { i \in 1..Len(out[h]) :
          out[h][i].call \in {"AnswerCallbackQuery", "EditMessageText", "SendMessage"} }

\* C11 as stated: a callback whose token is neither the cancel token nor a
\* configured profile label produces no callback answer, no message edit and
\* no message, and starts no Launch or Shutdown.
C11_UnknownTokenSilent ==
    \A h \in Handlers :
        (Routed(h) /\ ev[h].text # commandCancel /\ ~Exists(tunnelParams, ev[h].text))
            => /\ Replies(h) = {}
               /\ op[h].kind = "none"

IsCancel(h) == IsCallback(h) /\ ev[h].text = commandCancel
CancelAnswer == Call("AnswerCallbackQuery", <<>>, FALSE)
CancelEdit == Call("EditMessageText", messageCanceled, Nil)

\* C12: a callback carrying the cancel token is answered and the message is
\* edited to 'Canceled.' (the sole text it produces; the edit follows every
\* accepted answer), and it never invokes Launch or Shutdown nor changes the
\* controller's state, whether a process handle is set or not.
C12_CancelRepliesCanceled ==
    /\ [](\A h \in Handlers :
            IsCancel(h) =>
                /\ op[h].kind = "none"
                /\ pc[h] = "done" =>
                      /\ out[h] \in { <<TypingCall, CancelAnswer>>,
                                      <<TypingCall, CancelAnswer, CancelEdit>> }
                      /\ result[h] => Len(out[h]) = 3)
    /\ [][\A h \in Handlers :
            (IsCancel(h) /\ pc'[h] # pc[h]) => UNCHANGED ctlVars]_vars

C12_Witness ==
    \E h \in Handlers :
        /\ IsCancel(h)
        /\ pc[h] = "done"
        /\ out[h] = <<TypingCall, CancelAnswer, CancelEdit>>
        /\ cmd # NoCmd
        /\ proc[cmd] = "running"

\* C13 as stated: for every configured profile label, a callback whose token
\* equals that label invokes Launch, once, with that profile's arguments.
C13_LabelLaunchesProfile ==
    \A h \in Handlers :
        (Routed(h) /\ Exists(tunnelParams, ev[h].text))
            => /\ op[h].kind = "launch"
               /\ op[h].params = Split(Lookup(tunnelParams, ev[h].text), " ")

\* the buttons the /launch keyboard offers
OfferedTokens == Keys(tunnelParams) \cup {commandCancel}

\* C14 as stated: the tokens the router acts on are exactly the configured
\* labels and the cancel token: a token outside that set is rejected, a label
\* launches its profile and the cancel token cancels.
C14_ActsOnOfferedTokensOnly ==
    \A h \in Handlers :
        Routed(h) =>
            /\ ev[h].text \notin OfferedTokens
                  => (pc[h] = "done" /\ out[h] = <<TypingCall>> /\ op[h].kind = "none")
            /\ ev[h].text \in Keys(tunnelParams) => op[h].kind = "launch"
            /\ ev[h].text = commandCancel
                  => (pc[h] \in {"cb_answer", "cb_edit", "done"} /\ op[h].kind = "none")

\* ---- the /launch command
IsLaunchCommand(h) ==
    /\ ev[h].kind = "message"
    /\ Authorized(ev[h])
    /\ HasPrefix(ev[h].text, commandLaunchNgrok)
    /\ pc[h] = "done"
LabelButton(k) == [Text |-> k, CallbackData |-> k]
CancelButton == [Text |-> messageCancel, CallbackData |-> commandCancel]
\* the reply offers one button per configured label and, last, one cancel button
OffersProfiles(kb) ==
    /\ kb.kind = "inline"
    /\ Len(kb.rows) = NumProfiles + 1
    /\ kb.rows[Len(kb.rows)] = CancelButton
    /\ \A k \in Keys(tunnelParams) :
          Cardinality({i \in 1..NumProfiles : kb.rows[i] = LabelButton(k)}) = 1
LaunchPrompt(h) ==
    /\ Len(out[h]) = 2
    /\ out[h][2].call = "SendMessage"
    /\ out[h][2].text = messageWhatToLaunch
    /\ OffersProfiles(out[h][2].markup)

\* C15 as stated: with no profile configured the reply to /launch says so and
\* carries no keyboard; otherwise it is the prompt with one button per label
\* and one cancel button; neither case invokes Launch or Shutdown.
C15_NoProfilesNoKeyboard ==
    \A h \in Handlers :
        IsLaunchCommand(h) =>
            /\ op[h].kind = "none"
            /\ IF NumProfiles = 0
               THEN /\ Len(out[h]) = 2
                    /\ out[h][2].call = "SendMessage"
                    /\ out[h][2].text = messageNoConfiguredTunnels
                    /\ out[h][2].markup.kind \notin {"reply", "inline"}
               ELSE LaunchPrompt(h)

\* C15, amended: with no profile configured the reply to /launch is 'No
\* tunnels configured.' and carries no selection keyboard, only the persistent
\* reply keyboard of the two commands; otherwise it is the prompt with one
\* button per label and, last, one cancel button; neither case invokes Launch
\* or Shutdown.
C15_NoProfilesReplyKeyboardOnly ==
    \A h \in Handlers :
        IsLaunchCommand(h) =>
            /\ op[h].kind = "none"
            /\ IF NumProfiles = 0
               THEN out[h] = <<TypingCall,
                               Call("SendMessage", messageNoConfiguredTunnels, ReplyKeyboard)>>
               ELSE LaunchPrompt(h)

C15_Witness ==
    \E h \in Handlers :
        /\ IsLaunchCommand(h)
        /\ NumProfiles = 0
        /\ out[h][2].markup = [kind |-> "reply", rows |-> allKeyboards]

C15_WitnessPrompt ==
    \E h \in Handlers : IsLaunchCommand(h) /\ NumProfiles = 2 /\ LaunchPrompt(h)

\* ---- the order of the operations
\* the handler's operation has taken the lock (and may have released it since)
HasAcquired(h) ==
    /\ op[h].kind # "none"
    /\ pc[h] \notin {"l_lock", "s_lock"}
\* the handler's operation is called and has not taken the lock yet
AwaitsLock(h) == pc[h] \in {"l_lock", "s_lock"}

\* C16 as stated: operations take the lock in the order in which their
\* updates arrived: when update A arrived before update B, B's operation does
\* not take the lock while A's has yet to take it.
C16_LockOrderIsArrivalOrder ==
    \A a, b \in Handlers :
        (arrived[a] > 0 /\ arrived[a] < arrived[b] /\ AwaitsLock(a)) => ~HasAcquired(b)

\* ---- termination of the operations
\* the handler's Launch or Shutdown is called and has not returned
InOperation(h) == AwaitsLock(h) \/ InCS(h)

\* C17 as stated: under fair scheduling every Launch or Shutdown that has
\* started runs to completion and releases the lock: none blocks forever,
\* none is abandoned midway, concurrent calls do not deadlock.
C17_EveryOperationCompletes ==
    \A h \in Handlers : InOperation(h) ~> (~InOperation(h) /\ lock # h)

\* ---- the kill goroutine
\* the goroutine g takes a step: it reads the global cmd, or it dereferences
\* the handle it has read and signals
KillRuns(g) == g \in kills /\ g \notin kills'
\* the operation that started g still holds the lock
HeldForGoroutine(g) ==
    /\ lock = g.by
    /\ InCS(g.by)
    /\ op[g.by].kill
    /\ op[g.by].old = g.target
InTeardown(h) == pc[h] \in {"l_wait", "s_wait"}

\* C18 as stated: the global cmd is written only by the handler holding the
\* lock, and the kill goroutine reads and dereferences it only while the
\* operation that started it holds the lock.
C18_HandleAccessedUnderLock ==
    [][/\ cmd' # cmd => (lock # 0 /\ lock' = lock /\ pc'[lock] # pc[lock])
       /\ \A g \in kills : KillRuns(g) => HeldForGoroutine(g)]_vars

\* C19 as stated: the controller with the kill in a goroutine behaves as one
\* that signals and then waits synchronously: a process is killed only at the
\* teardown of the operation holding the lock and only if it is the one that
\* operation found, and the host crashes only within such an operation, on a
\* found handle that was never started.
C19_AsyncKillAsSynchronous ==
    [][/\ \A c \in CmdIds :
            (proc'[c] = "killed" /\ proc[c] # "killed")
                => (lock # 0 /\ InTeardown(lock) /\ op[lock].old = c /\ cmd = c)
       /\ (crashed' /\ ~crashed)
                => (lock # 0 /\ InCS(lock) /\ op[lock].kill
                      /\ proc[op[lock].old] = "unstarted")]_vars

\* C20 as stated: the kill goroutine signals only the process that was
\* current when its operation began: it never meets a cleared handle, a
\* handle set later, or a handle whose process was not started.
C20_SignalsOnlyItsTarget ==
    [][\A g \in kills :
          KillRuns(g) =>
              IF g.read = NoCmd
              THEN cmd # NoCmd /\ cmd = g.target
              ELSE g.read = g.target /\ proc[g.read] \notin {"unstarted", "forked"}]_vars

\* ---- the reply to a profile-label callback
\* the handler's Launch has returned and the callback has been answered
LaunchAnswered(h) == op[h].kind = "launch" /\ pc[h] = "done"
\* what that Launch returned, from what it met (lines 191-208)
LaunchReturned(h) ==
    IF op[h].spawn = "fail"
    THEN [message |-> <<"Failed to launch: ", "exec error">>, success |-> FALSE]
    ELSE IF op[h].status = "fail"
         THEN [message |-> <<"Failed to get tunnels status: ", "connection refused">>,
               success |-> FALSE]
         ELSE [message |-> IF op[h].tunnels = <<>>
                           THEN <<"No tunnels available.">>
                           ELSE FormatTunnels(op[h].tunnels),
               success |-> TRUE]

\* C21: after a profile-label callback the answer and the edited message
\* reflect what that Launch returned: on success the toast is 'Launched
\* successfully: <label>' and the text is the endpoint report, on failure the
\* toast is 'Launch failed.' and the text is Launch's failure detail, unchanged.
C21_ReplyReflectsLaunch ==
    \A h \in Handlers :
        LaunchAnswered(h) =>
            /\ success[h] = LaunchReturned(h).success
            /\ Len(out[h]) \in {2, 3}
            /\ out[h][2].call = "AnswerCallbackQuery"
            /\ out[h][2].markup = TRUE
            /\ out[h][2].text = IF LaunchReturned(h).success
                                THEN <<"Launched successfully: ">> \o ev[h].text
                                ELSE <<"Launch failed.">>
            /\ Len(out[h]) = 3 =>
                  /\ out[h][3].call = "EditMessageText"
                  /\ out[h][3].text = LaunchReturned(h).message

C21_Witness ==
    \E h \in Handlers :
        /\ LaunchAnswered(h)
        /\ op[h].spawn = "ok"
        /\ op[h].status = "fail"
        /\ Len(out[h]) = 3
        /\ out[h][2].text = messageLaunchFailed

C21_WitnessSuccess ==
    \E h \in Handlers :
        /\ LaunchAnswered(h)
        /\ success[h]
        /\ Len(out[h]) = 3
        /\ out[h][2].text = <<"Launched successfully: ", "web">>

\* ---- one attempt per update
CallCount(h, name) == Cardinality({ i \in 1..Len(out[h]) : out[h][i].call = name })
\* the messages the chat shows for the update: a sent or an edited message
ChatMessages(h) == CallCount(h, "SendMessage") + CallCount(h, "EditMessageText")
\* the handler's operation met a failure
OperationFailed(h) ==
    \/ op[h].spawn = "fail"
    \/ op[h].status = "fail"
    \/ (op[h].kind = "shutdown" /\ op[h].idle /\ pc[h] \in {"s_unlock", "pu_send", "done"})

\* C22: handling one update makes every transport call at most once and
\* calls, spawns and queries the status at most once; with a failure (spawn,
\* status query, nothing to shut down) as without, the chat gets at most one
\* message for the update.
C22_NoRetries ==
    /\ [](\A h \in Handlers :
            /\ \A name \in {"SendChatAction", "SendMessage",
                            "AnswerCallbackQuery", "EditMessageText"} :
                   CallCount(h, name) <= 1
            /\ ChatMessages(h) <= 1)
    /\ [][\A h \in Handlers :
            /\ (pc'[h] \in {"l_lock", "s_lock"} /\ pc[h] # pc'[h]) => op[h].kind = "none"
            /\ (op'[h].new # op[h].new /\ op'[h].new # NoCmd) => op[h].new = NoCmd
            /\ (op'[h].spawn # op[h].spawn /\ op'[h].spawn # "none") => op[h].spawn = "none"
            /\ (op'[h].status # op[h].status /\ op'[h].status # "none")
                   => op[h].status = "none"]_vars

C22_Witness ==
    \E h \in Handlers :
        /\ pc[h] = "done"
        /\ OperationFailed(h)
        /\ op[h].kind = "shutdown"
        /\ ChatMessages(h) = 1
        /\ ~result[h]

\* C23 as stated: handling a callback whose token is not one of the offered
\* buttons issues no transport call at all, not even the typing action.
C23_UnrecognizedFullySilent ==
    \A h \in Handlers :
        (Routed(h) /\ ev[h].text \notin OfferedTokens) => out[h] = <<>>

\* ---- the router and the controller
IsShutdownCommand(e) ==
    /\ e.kind = "message"
    /\ Authorized(e)
    /\ HasPrefix(e.text, commandShutdownNgrok)
\* what the handler's Shutdown returned, from what it met (lines 216-236)
ShutdownReturned(h) ==
    IF op[h].idle
    THEN <<"Failed to shutdown: ", "no running process">>
    ELSE IF op[h].waitErr
         THEN <<"Shutdown successfully. (", "wait error", ")">>
         ELSE <<"Shutdown successfully.">>
\* a handler between two updates holds nothing of the update it handled
NoRouterState(h) ==
    /\ ev[h] = NoEvent
    /\ message[h] = <<>>
    /\ ~success[h]
    /\ ~result[h]
    /\ options[h] = Nil
    /\ out[h] = <<>>
    /\ op[h] = NoOp

\* C24: the router keeps nothing between updates and reaches the controller
\* only through the shutdown command and a profile callback: an authorized
\* text beginning with the shutdown command calls Shutdown once and sends the
\* message it returned, success or failure, verbatim; every other text calls
\* neither Launch nor Shutdown and changes no controller state.
C24_RouterStatelessShutdownVerbatim ==
    /\ [](\A h \in Handlers :
            /\ pc[h] = "idle" => NoRouterState(h)
            /\ op[h].kind # "none" =>
                  (IF ev[h].kind = "message"
                   THEN IsShutdownCommand(ev[h]) /\ op[h].kind = "shutdown"
                   ELSE WouldLaunch(ev[h]) /\ op[h].kind = "launch")
            /\ (IsShutdownCommand(ev[h]) /\ pc[h] # "pu_begin") => op[h].kind = "shutdown"
            /\ (IsShutdownCommand(ev[h]) /\ pc[h] = "done") =>
                  /\ Len(out[h]) = 2
                  /\ out[h][2].call = "SendMessage"
                  /\ out[h][2].text = ShutdownReturned(h)
                  /\ success[h] = ~op[h].idle)
    /\ [][\A h \in Handlers :
            /\ (pc'[h] = "s_lock" /\ pc[h] # "s_lock") => op[h].kind = "none"
            /\ (ev[h].kind = "message" /\ ~IsShutdownCommand(ev[h]) /\ pc'[h] # pc[h])
                   => UNCHANGED ctlVars]_vars

C24_Witness ==
    \E h \in Handlers :
        /\ IsShutdownCommand(ev[h])
        /\ ev[h].text = <<"/shutdown", " now">>
        /\ pc[h] = "done"
        /\ op[h].idle
        /\ out[h][2].text = messageShutdownFailedFormat(<<"no running process">>)

C24_WitnessOther ==
    \E h \in Handlers :
        /\ ev[h].kind = "message"
        /\ ev[h].text = <<"/launch">>
        /\ pc[h] = "done"
        /\ cmd # NoCmd

\* C25: every message launchNgrok returns is non-empty, on success and on
\* both failure paths, so a completed Launch is never answered without a
\* toast and never reported as 'Canceled.'.
C25_LaunchMessageNonEmpty ==
    \A h \in Handlers :
        /\ (op[h].kind = "launch" /\ pc[h] \in {"l_unlock", "cb_answer", "cb_edit"})
              => Len(message[h]) > 0
        /\ LaunchAnswered(h) =>
              /\ Len(out[h]) >= 2
              /\ out[h][2].call = "AnswerCallbackQuery"
              /\ out[h][2].markup = TRUE
              /\ Len(out[h][2].text) > 0
              /\ \A i \in 1..Len(out[h]) :
                     out[h][i].call = "EditMessageText"
                         => (out[h][i].text # <<"Canceled.">> /\ Len(out[h][i].text) > 0)

C25_Witness ==
    \E h \in Handlers :
        /\ LaunchAnswered(h)
        /\ op[h].status = "ok"
        /\ op[h].tunnels = <<>>
        /\ Len(out[h]) = 3
        /\ out[h][3].text = messageNoTunnels

\* C2 as stated, its last part: no process is left signalled for termination
\* without a matching wait: a process that has been signalled and is not yet
\* reaped is the one the lock holder is waiting on at that moment.
C2_NoProcessLeftSignalled ==
    \A c \in CmdIds :
        proc[c] = "killed" => (lock # 0 /\ InTeardown(lock) /\ cmd = c)

====
